---- MODULE Spec2Model ----
(***************************************************************************)
(* Alcovia intervention engine: the server controller (studentController)  *)
(* and the client focus session monitor (App).                             *)
(*                                                                         *)
(* Server: every HTTP handler is an async function; each `await` is a      *)
(* point where another request may run, so a handler is a sequence of      *)
(* steps, one per awaited query or transport call. A request's arrival,    *)
(* its validation and its first query are one step: nothing another        *)
(* request can see happens before that query.                              *)
(*                                                                         *)
(* Client: a handler runs to completion, with the state updates it         *)
(* schedules and the effects that follow the render; a network call is in  *)
(* flight from its await until it settles.                                 *)
(*                                                                         *)
(* Numbers: a focus duration is kept in sixtieths of a minute, so that     *)
(* minutes + seconds / 60 is exact.                                        *)
(***************************************************************************)
EXTENDS Integers, Sequences, FiniteSets, TLC

\* ------------------------------------------------------------------ bounds

\* Requests the server accepts in one run.
MaxRequests == 3

\* Seconds the focus timer counts in one run.
MaxSeconds == 2

\* Network calls of one kind the client has in flight at the same time.
MaxCalls == 2

\* ------------------------------------------------------- program constants

\* quizScore > 7
ScoreThreshold == 7

\* focusMinutes > 60
FocusThreshold == 60

\* minutes + seconds / 60
SecondsPerMinute == 60

\* ------------------------------------------------------------------ values

\* An optional JSON field: absent, or present with a value.
None == <<>>
Some(x) == <<x>>
IsSome(o) == Len(o) = 1
Val(o) == o[1]

States == {"normal", "needs_intervention", "remedial"}

StudentIds == {"s1", "s2"}

\* Strings are sequences of one-character strings.
S_61_00 == <<"6", "1", ":", "0", "0">>
S_60_00 == <<"6", "0", ":", "0", "0">>
S_00_05 == <<"0", "0", ":", "0", "5">>
S_bad == <<"b", "a", "d">>

DigitValue(c) ==
    CASE c = "0" -> 0 [] c = "1" -> 1 [] c = "2" -> 2 [] c = "3" -> 3
      [] c = "4" -> 4 [] c = "5" -> 5 [] c = "6" -> 6 [] c = "7" -> 7
      [] c = "8" -> 8 [] c = "9" -> 9 [] OTHER -> -1

IsDigits(s) == Len(s) > 0 /\ \A i \in 1..Len(s) : DigitValue(s[i]) >= 0

RECURSIVE DecimalValue(_)
DecimalValue(s) ==
    IF Len(s) = 0 THEN 0
    ELSE 10 * DecimalValue(SubSeq(s, 1, Len(s) - 1)) + DigitValue(s[Len(s)])

\* Number(string) on strings of digits, sign and other characters: the empty
\* string is 0, an optionally signed run of digits is its value, anything
\* else is NaN.
NumberOf(s) ==
    IF Len(s) = 0 THEN [nan |-> FALSE, val |-> 0]
    ELSE IF IsDigits(s) THEN [nan |-> FALSE, val |-> DecimalValue(s)]
    ELSE IF s[1] = "-" /\ IsDigits(Tail(s))
        THEN [nan |-> FALSE, val |-> 0 - DecimalValue(Tail(s))]
    ELSE IF s[1] = "+" /\ IsDigits(Tail(s))
        THEN [nan |-> FALSE, val |-> DecimalValue(Tail(s))]
    ELSE [nan |-> TRUE, val |-> 0]

\* string.split(':')
RECURSIVE Split(_)
Split(s) ==
    IF \A i \in 1..Len(s) : s[i] # ":" THEN <<s>>
    ELSE LET k == CHOOSE i \in 1..Len(s) :
                      s[i] = ":" /\ \A j \in 1..(i - 1) : s[j] # ":"
         IN <<SubSeq(s, 1, k - 1)>> \o Split(SubSeq(s, k + 1, Len(s)))

parseFocusMinutesDurationFirst(body) ==
    IF IsSome(body.focus_duration)
    THEN LET str == Val(body.focus_duration)
             parts == Split(str)
             minutes == NumberOf(parts[1])
             seconds == NumberOf(parts[2])
             numeric == NumberOf(str)
         IN IF Len(parts) = 2 /\ ~minutes.nan /\ ~seconds.nan
            THEN minutes.val * SecondsPerMinute + seconds.val
            ELSE IF ~numeric.nan THEN numeric.val * SecondsPerMinute
            ELSE 0
    ELSE IF IsSome(body.focus_minutes)
              /\ Val(body.focus_minutes).type = "number"
              /\ Val(body.focus_minutes).finite
    THEN Val(body.focus_minutes).val * SecondsPerMinute
    ELSE 0

\* body.focus_minutes is None, Some([type |-> "number", finite |-> b, val |-> n])
\* (n in minutes) or Some of another type; body.focus_duration is None or
\* Some(string). The result is in sixtieths of a minute.
parseFocusMinutes(body) ==
    IF IsSome(body.focus_minutes)
          /\ Val(body.focus_minutes).type = "number"
          /\ Val(body.focus_minutes).finite
    THEN Val(body.focus_minutes).val * SecondsPerMinute
    ELSE IF IsSome(body.focus_duration)
    THEN LET str == Val(body.focus_duration)
             parts == Split(str)
             minutes == NumberOf(parts[1])
             seconds == NumberOf(parts[2])
             numeric == NumberOf(str)
         IN IF Len(parts) = 2 /\ ~minutes.nan /\ ~seconds.nan
            THEN minutes.val * SecondsPerMinute + seconds.val
            ELSE IF ~numeric.nan THEN numeric.val * SecondsPerMinute
            ELSE 0
    ELSE 0

\* Math.round of a value in sixtieths of a minute, in minutes.
MathRound(fm) == (2 * fm + SecondsPerMinute) \div (2 * SecondsPerMinute)


\* ------------------------------------------------------------ request bodies

Number(n) == [type |-> "number", finite |-> TRUE, val |-> n]

\* Check-ins and violation reports come from the monitored student, s1;
\* interventions are assigned to and completed by both students.
CheckinBodies ==
    { [student_id |-> Some("s1"), quiz_score |-> Some(q),
       focus_minutes |-> None, focus_duration |-> Some(d)] :
         q \in {7, 8}, d \in {S_61_00, S_60_00} }
    \cup
    { [student_id |-> Some("s1"), quiz_score |-> Some(8),
       focus_minutes |-> Some(Number(61)), focus_duration |-> None],
      [student_id |-> None, quiz_score |-> Some(8),
       focus_minutes |-> None, focus_duration |-> Some(S_61_00)],
      [student_id |-> Some("s1"), quiz_score |-> None,
       focus_minutes |-> None, focus_duration |-> Some(S_61_00)] }

ReportBodies ==
    { [student_id |-> s, reason |-> x,
       focus_minutes |-> None, focus_duration |-> Some(S_00_05)] :
         s \in {None, Some("s1")}, x \in {None, Some("window hidden")} }

AssignBodies ==
    { [student_id |-> Some(s), task_description |-> Some("revise")] : s \in StudentIds }
    \cup
    { [student_id |-> None, task_description |-> Some("revise")],
      [student_id |-> Some("s1"), task_description |-> None],
      [student_id |-> Some("s1"), task_description |-> Some("")] }

CompleteBodies ==
    { [student_id |-> Some(s), intervention_id |-> Some(i),
       focus_minutes |-> None, focus_duration |-> Some(S_00_05)] :
         s \in StudentIds, i \in 1..(MaxRequests - 1) }
    \cup
    { [student_id |-> None, intervention_id |-> Some(1),
       focus_minutes |-> None, focus_duration |-> None],
      [student_id |-> Some("s1"), intervention_id |-> None,
       focus_minutes |-> None, focus_duration |-> None] }

\* More focus_duration strings: empty, signed, with a signed or empty part,
\* three parts, a bare number.
S_empty == <<>>
S_m5 == <<"-", "5">>
S_m1_30 == <<"-", "1", ":", "3", "0">>
S_1_m30 == <<"1", ":", "-", "3", "0">>
S_p2_15 == <<"+", "2", ":", "1", "5">>
S_5_30 == <<"5", ":", "3", "0">>
S_90 == <<"9", "0">>
S_1_2_3 == <<"1", ":", "2", ":", "3">>
S_colon == <<":">>
S_5_colon == <<"5", ":">>
S_a_10 == <<"a", ":", "1", "0">>
S_0_00 == <<"0", ":", "0", "0">>

\* body.focus_minutes: absent, a finite number, a number that is not finite
\* (NaN, Infinity), or a value of another type.
FocusMinutesValues ==
    { None, Some(Number(61)), Some(Number(0)), Some(Number(0 - 5)),
      Some([type |-> "number", finite |-> FALSE, val |-> 0]),
      Some([type |-> "string", finite |-> FALSE, val |-> 61]) }

\* body.focus_duration: absent or a string.
FocusDurationValues ==
    { None } \cup
    { Some(d) : d \in { S_61_00, S_60_00, S_00_05, S_bad, S_empty, S_m5, S_m1_30,
                        S_1_m30, S_p2_15, S_5_30, S_90, S_1_2_3, S_colon,
                        S_5_colon, S_a_10, S_0_00 } }

\* The payloads the normalizer is applied to.
Payloads ==
    { [focus_minutes |-> m, focus_duration |-> d] :
         m \in FocusMinutesValues, d \in FocusDurationValues }

\* What triggerMentorNotification(studentId, score, focusMinutes) does: it
\* resolves to a result {skipped?, message?} or it raises.
NotifyOutcomes ==
    { [raised |-> FALSE, skipped |-> FALSE, message |-> None],
      [raised |-> FALSE, skipped |-> TRUE, message |-> Some("No mentor configured")],
      [raised |-> FALSE, skipped |-> TRUE, message |-> None],
      [raised |-> TRUE, skipped |-> FALSE, message |-> None] }

\* ------------------------------------------------------------------- state

VARIABLES
    students,       \* students table: id -> status
    dailyLogs,      \* daily_logs table, in insertion order
    interventions,  \* interventions table; a row's id is its position
    now,            \* the data store's clock, NOW()
    reqs,           \* the requests being handled
    sent,           \* the response the last step sent, with what its request did
    issued          \* requests accepted so far

\* The client (App): React state, refs and the network calls in flight.
VARIABLES
    platform,           \* Platform.OS: "web" or "native"
    studentStatus,      \* useState('normal')
    intervention,       \* useState(null): the cached intervention
    isTimerRunning,     \* useState(false)
    focusSeconds,       \* useState(0)
    isLoading,          \* useState(false)
    focusViolation,     \* useState(false)
    intervalRef,        \* whether the one-second interval is set
    appStateRef,        \* useRef(AppState.currentState)
    isTimerRunningRef,  \* useRef(false)
    focusSecondsRef,    \* useRef(0)
    posts,              \* POST /report-cheat calls in flight, their bodies
    fetches,            \* GET /student/{id}/status calls in flight
    reportsSinceStart   \* violation reports sent since the last startTimer

serverVars == <<students, dailyLogs, interventions, now, reqs, sent, issued>>

clientVars ==
    <<platform, studentStatus, intervention, isTimerRunning, focusSeconds,
      isLoading, focusViolation, intervalRef, appStateRef, isTimerRunningRef,
      focusSecondsRef, posts, fetches, reportsSinceStart>>

\* The signal normalizer taken alone: a payload and what it is reduced to.
VARIABLES
    payload,            \* req.body, as far as parseFocusMinutes reads it
    normalized          \* what parseFocusMinutes(req.body) returned, once called

normalizerVars == <<payload, normalized>>

vars == <<serverVars, clientVars, normalizerVars>>

\* Two requests are handled at a time: a race is between two handlers.
Slots == {1, 2}

NoResponse ==
    [code |-> 0, status |-> "", warning |-> None, success |-> FALSE, intervention_id |-> 0]

Json(status, warning) ==
    [code |-> 200, status |-> status, warning |-> warning,
     success |-> FALSE, intervention_id |-> 0]

ErrorAsSuccess(code) ==
    [code |-> 200, status |-> "", warning |-> None, success |-> TRUE, intervention_id |-> 0]

Error(code) ==
    [code |-> code, status |-> "", warning |-> None, success |-> FALSE, intervention_id |-> 0]

\* A request: the handler (kind), its position (pc), its locals, what it has
\* done so far (rows logged, transport call, status emitted) and its response.
IdleRequest ==
    [kind |-> "none", pc |-> "idle", studentId |-> "", quizScore |-> 0,
     focusMinutes |-> 0, reason |-> "", interventionId |-> 0,
     logged |-> 0, updated |-> FALSE, notify |-> "none", emit |-> "none",
     res |-> NoResponse]

AppStates == {"active", "inactive", "background"}

ServerInit ==
    /\ students = [s \in StudentIds |-> "normal"]
    /\ dailyLogs = <<>>
    /\ interventions = <<>>
    /\ now = 1
    /\ reqs = [r \in Slots |-> IdleRequest]
    /\ sent = IdleRequest
    /\ issued = 0

\* The component is mounted: the effects have run once, so the first status
\* fetch is in flight.
ClientMounted(os) ==
    /\ platform = os
    /\ studentStatus = "normal"
    /\ intervention = None
    /\ isTimerRunning = FALSE
    /\ focusSeconds = 0
    /\ isLoading = TRUE
    /\ focusViolation = FALSE
    /\ intervalRef = FALSE
    /\ appStateRef = "active"
    /\ isTimerRunningRef = FALSE
    /\ focusSecondsRef = 0
    /\ posts = <<>>
    /\ fetches = 1
    /\ reportsSinceStart = 0

\* No payload is being normalized on its own.
NormalizerIdle ==
    /\ payload = [focus_minutes |-> None, focus_duration |-> None]
    /\ normalized = None

\* The server's runs: the client is mounted and stays as it is.
Init == ServerInit /\ ClientMounted("web") /\ NormalizerIdle

\* The client's runs, on either platform: the server's tables stay as they are.
ClientInit ==
    ServerInit /\ NormalizerIdle /\ \E os \in {"web", "native"} : ClientMounted(os)

\* A new request is taken on the first slot that is not in flight.
Accept(r) ==
    /\ issued < MaxRequests
    /\ reqs[r].pc = "idle"
    /\ \A q \in Slots : q < r => reqs[q].pc # "idle"
    /\ issued' = issued + 1

\* !value of a string field: absent or empty.
Missing(o) == ~IsSome(o) \/ Val(o) = ""

RejectAfterInsert(kind) ==
    /\ sent' = [IdleRequest EXCEPT !.kind = kind, !.pc = "done", !.res = Error(400)]
    /\ dailyLogs' = Append(dailyLogs,
           [student_id |-> "", quiz_score |-> 0, focus_minutes |-> 0, status |-> kind])
    /\ UNCHANGED <<students, interventions, now, reqs>>
    /\ UNCHANGED <<clientVars, normalizerVars>>

\* Validation fails: res.status(400), before any query.
Reject(kind) ==
    /\ sent' = [IdleRequest EXCEPT !.kind = kind, !.pc = "done", !.res = Error(400)]
    /\ UNCHANGED <<students, dailyLogs, interventions, now, reqs>>
    /\ UNCHANGED <<clientVars, normalizerVars>>

\* The handler responds and returns: its locals are gone, the response and
\* what the request did are what is left of it.
Return(r, q, res) ==
    /\ sent' = [IdleRequest EXCEPT !.kind = q.kind, !.pc = "done",
                    !.logged = q.logged, !.updated = q.updated,
                    !.notify = q.notify, !.emit = q.emit, !.res = res]
    /\ reqs' = [reqs EXCEPT ![r] = IdleRequest]
    /\ UNCHANGED <<clientVars, normalizerVars>>

\* The handler goes on to its next await.
Continue(r, q) ==
    /\ reqs' = [reqs EXCEPT ![r] = q]
    /\ sent' = IdleRequest
    /\ UNCHANGED <<clientVars, normalizerVars>>

\* catch (err): res.status(500)
Fail(r) == Return(r, reqs[r], Error(500))

UpdateStudentUnlessEscalated(status, studentId) ==
    students' = IF students[studentId] = "needs_intervention"
                THEN students
                ELSE [students EXCEPT ![studentId] = status]

\* UPDATE students SET status = $1, updated_at = NOW() WHERE id = $2
UpdateStudent(status, studentId) ==
    students' = [students EXCEPT ![studentId] = status]

InsertLogTwice(studentId, quizScore, focusMinutes, status) ==
    LET row == [student_id |-> studentId, quiz_score |-> quizScore,
                focus_minutes |-> focusMinutes, status |-> status]
    IN dailyLogs' = dailyLogs \o <<row, row>>

InsertLogOverLast(studentId, quizScore, focusMinutes, status) ==
    LET row == [student_id |-> studentId, quiz_score |-> quizScore,
                focus_minutes |-> focusMinutes, status |-> status]
    IN dailyLogs' = IF dailyLogs = <<>> THEN <<row>>
                    ELSE [dailyLogs EXCEPT ![Len(dailyLogs)] = row]

\* INSERT INTO daily_logs (student_id, quiz_score, focus_minutes, status)
InsertLog(studentId, quizScore, focusMinutes, status) ==
    dailyLogs' = Append(dailyLogs,
        [student_id |-> studentId, quiz_score |-> quizScore,
         focus_minutes |-> focusMinutes, status |-> status])

\* ------------------------------------------------------------ dailyCheckin

isSuccessInclusive(quizScore, focusMinutes) ==
    quizScore > ScoreThreshold /\ focusMinutes >= FocusThreshold * SecondsPerMinute

isSuccess(quizScore, focusMinutes) ==
    quizScore > ScoreThreshold /\ focusMinutes > FocusThreshold * SecondsPerMinute

responseStatus(quizScore, focusMinutes) ==
    IF isSuccess(quizScore, focusMinutes) THEN "On Track" ELSE "Pending Mentor Review"

dbStatus(quizScore, focusMinutes) ==
    IF isSuccess(quizScore, focusMinutes) THEN "on_track" ELSE "needs_intervention"

\* The status a check-in writes to the students table.
checkinStateDbStatus(quizScore, focusMinutes) == dbStatus(quizScore, focusMinutes)

checkinState(quizScore, focusMinutes) ==
    IF isSuccess(quizScore, focusMinutes) THEN "normal" ELSE "needs_intervention"

\* The request arrives: validation, then
\* await runQuery('INSERT INTO daily_logs ...'), which succeeds (ok) or throws.
DailyCheckin(r, body, ok) ==
    /\ Accept(r)
    /\ LET q == [IdleRequest EXCEPT
                    !.kind = "dailyCheckin", !.pc = "updateStudent",
                    !.studentId = Val(body.student_id),
                    !.quizScore = Val(body.quiz_score),
                    !.focusMinutes = parseFocusMinutes(body)]
       IN IF Missing(body.student_id) \/ ~IsSome(body.quiz_score)
          THEN Reject("dailyCheckin")
          ELSE IF ~ok
          THEN Return(r, q, Error(500))
                   /\ UNCHANGED <<students, dailyLogs, interventions, now>>
          ELSE /\ InsertLog(q.studentId, q.quizScore, MathRound(q.focusMinutes),
                            dbStatus(q.quizScore, q.focusMinutes))
               /\ Continue(r, [q EXCEPT !.logged = q.logged + 1])
               /\ UNCHANGED <<students, interventions, now>>

\* await runQuery('UPDATE students ...'), then either the success response or
\* the call of triggerMentorNotification.
CheckinUpdateStudent(r, ok) ==
    /\ reqs[r].kind = "dailyCheckin" /\ reqs[r].pc = "updateStudent"
    /\ IF ~ok THEN Fail(r) /\ UNCHANGED students
       ELSE IF isSuccess(reqs[r].quizScore, reqs[r].focusMinutes)
       THEN /\ UpdateStudent(checkinState(reqs[r].quizScore, reqs[r].focusMinutes),
                              reqs[r].studentId)
            /\ Return(r, [reqs[r] EXCEPT !.updated = TRUE, !.emit = "normal"],
                      Json(responseStatus(reqs[r].quizScore, reqs[r].focusMinutes), None))
       ELSE /\ UpdateStudent(checkinState(reqs[r].quizScore, reqs[r].focusMinutes),
                              reqs[r].studentId)
            /\ Continue(r, [reqs[r] EXCEPT !.pc = "awaitNotify", !.updated = TRUE,
                                          !.notify = "pending"])
    /\ UNCHANGED <<dailyLogs, interventions, now, issued>>

\* How the awaited transport call ended.
NotifyKind(notifyResult) ==
    IF notifyResult.raised THEN "raised"
    ELSE IF notifyResult.skipped THEN "skipped" ELSE "sent"

\* The response of a failing check-in, by the transport's result.
CheckinNotifyResponse(status, notifyResult) ==
    IF notifyResult.raised
    THEN Json(status, Some("Notification may have failed"))
    ELSE IF notifyResult.skipped
    THEN Json(status, IF IsSome(notifyResult.message) /\ Val(notifyResult.message) # ""
                      THEN notifyResult.message
                      ELSE Some("Notification skipped"))
    ELSE Json(status, None)

CheckinNotifyResultUndo(r, notifyResult) ==
    /\ reqs[r].kind = "dailyCheckin" /\ reqs[r].pc = "awaitNotify"
    /\ Return(r, [reqs[r] EXCEPT !.emit = "needs_intervention",
                                 !.notify = NotifyKind(notifyResult)],
              CheckinNotifyResponse(
                  responseStatus(reqs[r].quizScore, reqs[r].focusMinutes), notifyResult))
    /\ students' = IF notifyResult.raised
                   THEN [students EXCEPT ![reqs[r].studentId] = "normal"]
                   ELSE students
    /\ UNCHANGED <<dailyLogs, interventions, now, issued>>

\* triggerMentorNotification resolves or raises.
CheckinNotifyResult(r, notifyResult) ==
    /\ reqs[r].kind = "dailyCheckin" /\ reqs[r].pc = "awaitNotify"
    /\ Return(r, [reqs[r] EXCEPT !.emit = "needs_intervention",
                                 !.notify = NotifyKind(notifyResult)],
              CheckinNotifyResponse(
                  responseStatus(reqs[r].quizScore, reqs[r].focusMinutes), notifyResult))
    /\ UNCHANGED <<students, dailyLogs, interventions, now, issued>>

\* -------------------------------------------------------------- reportCheat

statusReasonAsGiven(reason) == IF IsSome(reason) THEN Val(reason) ELSE ""

\* reason || 'cheated'
statusReason(reason) ==
    IF IsSome(reason) /\ Val(reason) # "" THEN Val(reason) ELSE "cheated"

\* The request arrives: validation, then
\* await runQuery('INSERT INTO daily_logs ...').
ReportCheat(r, body, ok) ==
    /\ Accept(r)
    /\ LET q == [IdleRequest EXCEPT
                    !.kind = "reportCheat", !.pc = "updateStudent",
                    !.studentId = Val(body.student_id),
                    !.reason = statusReason(body.reason),
                    !.focusMinutes = parseFocusMinutes(body)]
       IN IF Missing(body.student_id)
          THEN Reject("reportCheat")
          ELSE IF ~ok
          THEN Return(r, q, Error(500))
                   /\ UNCHANGED <<students, dailyLogs, interventions, now>>
          ELSE /\ InsertLog(q.studentId, 0, MathRound(q.focusMinutes), q.reason)
               /\ Continue(r, [q EXCEPT !.logged = q.logged + 1])
               /\ UNCHANGED <<students, interventions, now>>

\* await runQuery('UPDATE students ...'), then the call of
\* triggerMentorNotification.
ReportUpdateStudent(r, ok) ==
    /\ reqs[r].kind = "reportCheat" /\ reqs[r].pc = "updateStudent"
    /\ IF ok
       THEN /\ UpdateStudent("needs_intervention", reqs[r].studentId)
            /\ Continue(r, [reqs[r] EXCEPT !.pc = "awaitNotify", !.updated = TRUE,
                                          !.notify = "pending"])
       ELSE Fail(r) /\ UNCHANGED students
    /\ UNCHANGED <<dailyLogs, interventions, now, issued>>

\* The response of a violation report, by the transport's result.
ReportNotifyResponse(notifyResult) ==
    IF notifyResult.raised
    THEN Json("Logged cheat (notification may have failed)", None)
    ELSE IF notifyResult.skipped
    THEN Json("Logged cheat (notification skipped)", notifyResult.message)
    ELSE Json("Logged cheat and notified mentor", None)

ReportNotifyResultEmitUnlessRaised(r, notifyResult) ==
    /\ reqs[r].kind = "reportCheat" /\ reqs[r].pc = "awaitNotify"
    /\ Return(r, [reqs[r] EXCEPT !.emit = IF notifyResult.raised
                                          THEN "none" ELSE "needs_intervention",
                                 !.notify = NotifyKind(notifyResult)],
              ReportNotifyResponse(notifyResult))
    /\ UNCHANGED <<students, dailyLogs, interventions, now, issued>>

\* triggerMentorNotification resolves or raises: emitStudentStatus, res.json
ReportNotifyResult(r, notifyResult) ==
    /\ reqs[r].kind = "reportCheat" /\ reqs[r].pc = "awaitNotify"
    /\ Return(r, [reqs[r] EXCEPT !.emit = "needs_intervention",
                                 !.notify = NotifyKind(notifyResult)],
              ReportNotifyResponse(notifyResult))
    /\ UNCHANGED <<students, dailyLogs, interventions, now, issued>>

\* -------------------------------------------------------- assignIntervention

\* The request arrives: validation, then
\* await runQuery('INSERT INTO interventions (student_id, task_description)
\* VALUES ($1, $2) RETURNING id, task_description, status')
AssignIntervention(r, body, ok) ==
    /\ Accept(r)
    /\ LET q == [IdleRequest EXCEPT
                    !.kind = "assignIntervention", !.pc = "updateStudent",
                    !.studentId = Val(body.student_id),
                    !.reason = Val(body.task_description)]
       IN IF Missing(body.student_id) \/ Missing(body.task_description)
          THEN Reject("assignIntervention")
          ELSE IF ~ok
          THEN Return(r, q, Error(500))
                   /\ UNCHANGED <<students, dailyLogs, interventions, now>>
          ELSE /\ interventions' = Append(interventions,
                      [id |-> Len(interventions) + 1, student_id |-> q.studentId,
                       task_description |-> q.reason, status |-> "pending",
                       completed_at |-> 0])
               /\ Continue(r, [q EXCEPT !.interventionId = Len(interventions) + 1])
               /\ UNCHANGED <<students, dailyLogs, now>>

AssignUpdateStudentIfEscalated(r, ok) ==
    /\ reqs[r].kind = "assignIntervention" /\ reqs[r].pc = "updateStudent"
    /\ IF ok
       THEN /\ students' = IF students[reqs[r].studentId] = "needs_intervention"
                           THEN [students EXCEPT ![reqs[r].studentId] = "remedial"]
                           ELSE students
            /\ Return(r, [reqs[r] EXCEPT !.updated = TRUE, !.emit = "remedial"],
                      [Json("", None) EXCEPT !.success = TRUE,
                           !.intervention_id = reqs[r].interventionId])
       ELSE Fail(r) /\ UNCHANGED students
    /\ UNCHANGED <<dailyLogs, interventions, now, issued>>

\* await runQuery('UPDATE students ...'), emit, res.json
AssignUpdateStudent(r, ok) ==
    /\ reqs[r].kind = "assignIntervention" /\ reqs[r].pc = "updateStudent"
    /\ IF ok
       THEN /\ UpdateStudent("remedial", reqs[r].studentId)
            /\ Return(r, [reqs[r] EXCEPT !.updated = TRUE, !.emit = "remedial"],
                      [Json("", None) EXCEPT !.success = TRUE,
                           !.intervention_id = reqs[r].interventionId])
       ELSE Fail(r) /\ UNCHANGED students
    /\ UNCHANGED <<dailyLogs, interventions, now, issued>>

\* ------------------------------------------------------ completeIntervention

CompleteWhereIdOnly(row, interventionId, studentId) ==
    row.id = interventionId

CompleteWhereStudent(row, interventionId, studentId) ==
    row.student_id = studentId

\* WHERE id = $2 AND student_id = $3
CompleteWhere(row, interventionId, studentId) ==
    row.id = interventionId /\ row.student_id = studentId

CompletedRowNoTime(row, at) == [row EXCEPT !.status = "completed"]

\* SET status = 'completed', completed_at = NOW()
CompletedRow(row, at) == [row EXCEPT !.status = "completed", !.completed_at = at]

\* The request arrives: validation, then
\* await runQuery('UPDATE interventions SET status = $1, completed_at = NOW()
\* WHERE id = $2 AND student_id = $3'); 404 when rowCount is 0.
CompleteIntervention(r, body, ok) ==
    /\ Accept(r)
    /\ LET q == [IdleRequest EXCEPT
                    !.kind = "completeIntervention", !.pc = "updateStudent",
                    !.studentId = Val(body.student_id),
                    !.interventionId = Val(body.intervention_id),
                    !.focusMinutes = parseFocusMinutes(body)]
           hit == {i \in 1..Len(interventions) :
                      CompleteWhere(interventions[i], q.interventionId, q.studentId)}
       IN IF Missing(body.student_id) \/ ~IsSome(body.intervention_id)
                \/ Val(body.intervention_id) = 0
          THEN Reject("completeIntervention")
          ELSE IF ~ok
          THEN Return(r, q, Error(500))
                   /\ UNCHANGED <<students, dailyLogs, interventions, now>>
          ELSE IF hit = {}
          THEN Return(r, q, Error(404))
                   /\ UNCHANGED <<students, dailyLogs, interventions, now>>
          ELSE /\ interventions' = [i \in 1..Len(interventions) |->
                      IF i \in hit
                      THEN CompletedRow(interventions[i], now)
                      ELSE interventions[i]]
               /\ now' = now + 1
               /\ Continue(r, q)
               /\ UNCHANGED <<students, dailyLogs>>

\* await runQuery('UPDATE students ...'), emit, res.json
CompleteUpdateStudent(r, ok) ==
    /\ reqs[r].kind = "completeIntervention" /\ reqs[r].pc = "updateStudent"
    /\ IF ok
       THEN /\ UpdateStudent("normal", reqs[r].studentId)
            /\ Return(r, [reqs[r] EXCEPT !.updated = TRUE, !.emit = "normal"],
                      [Json("", None) EXCEPT !.success = TRUE])
       ELSE Fail(r) /\ UNCHANGED students
    /\ UNCHANGED <<dailyLogs, interventions, now, issued>>

\* -------------------------------------------------------------------- server

Next ==
    \/ \E r \in Slots, body \in CheckinBodies, ok \in BOOLEAN : DailyCheckin(r, body, ok)
    \/ \E r \in Slots, ok \in BOOLEAN : CheckinUpdateStudent(r, ok)
    \/ \E r \in Slots, n \in NotifyOutcomes : CheckinNotifyResult(r, n)
    \/ \E r \in Slots, body \in ReportBodies, ok \in BOOLEAN : ReportCheat(r, body, ok)
    \/ \E r \in Slots, ok \in BOOLEAN : ReportUpdateStudent(r, ok)
    \/ \E r \in Slots, n \in NotifyOutcomes : ReportNotifyResult(r, n)
    \/ \E r \in Slots, body \in AssignBodies, ok \in BOOLEAN : AssignIntervention(r, body, ok)
    \/ \E r \in Slots, ok \in BOOLEAN : AssignUpdateStudent(r, ok)
    \/ \E r \in Slots, body \in CompleteBodies, ok \in BOOLEAN :
           CompleteIntervention(r, body, ok)
    \/ \E r \in Slots, ok \in BOOLEAN : CompleteUpdateStudent(r, ok)

Spec == Init /\ [][Next]_vars


\* -------------------------------------------------------------------- client

STUDENT_ID == "student 123"

Digit(n) ==
    CASE n = 0 -> "0" [] n = 1 -> "1" [] n = 2 -> "2" [] n = 3 -> "3" [] n = 4 -> "4"
      [] n = 5 -> "5" [] n = 6 -> "6" [] n = 7 -> "7" [] n = 8 -> "8" [] n = 9 -> "9"

\* String(n) of a natural number
RECURSIVE StringOf(_)
StringOf(n) ==
    IF n < 10 THEN <<Digit(n)>> ELSE StringOf(n \div 10) \o <<Digit(n % 10)>>

\* String(n).padStart(2, '0')
PadStart2(n) == IF n < 10 THEN <<"0">> \o StringOf(n) ELSE StringOf(n)

formatTime(seconds) ==
    PadStart2(seconds \div SecondsPerMinute) \o <<":">> \o PadStart2(seconds % SecondsPerMinute)

\* What GET /student/{id}/status answers: {student, intervention | null}.
StatusResponses ==
    { [status |-> st, intervention |-> i] : st \in States, i \in {None, Some(1)} }

\* fetchStudentStatus, up to its await: setIsLoading(true), axios.get
FetchIssued ==
    /\ fetches < MaxCalls
    /\ isLoading' = TRUE
    /\ fetches' = fetches + 1

ClientReportCheatNoTime(reason) ==
    /\ posts' = Append(posts, [student_id |-> STUDENT_ID,
                               focus_duration |-> formatTime(0),
                               reason |-> reason])
    /\ reportsSinceStart' = reportsSinceStart + 1

\* reportCheat(reason), up to its await: axios.post with the elapsed time
ClientReportCheat(reason) ==
    /\ posts' = Append(posts, [student_id |-> STUDENT_ID,
                               focus_duration |-> formatTime(focusSecondsRef),
                               reason |-> reason])
    /\ reportsSinceStart' = reportsSinceStart + 1

FocusLossAlways == TRUE

FocusLossUnlessViolated == ~focusViolation

\* if (!isTimerRunningRef.current) return
FocusLossFires == isTimerRunningRef

\* handleFocusLoss(reason), with the interval effect that follows the render.
handleFocusLoss(reason) ==
    IF ~FocusLossFires
    THEN UNCHANGED <<studentStatus, intervention, isTimerRunning, focusViolation,
                     intervalRef, isTimerRunningRef, posts, reportsSinceStart>>
    ELSE /\ Len(posts) < MaxCalls
         /\ isTimerRunning' = FALSE
         /\ isTimerRunningRef' = FALSE
         /\ focusViolation' = TRUE
         /\ studentStatus' = "needs_intervention"
         /\ intervention' = None
         /\ intervalRef' = FALSE
         /\ ClientReportCheat(reason)

\* document 'visibilitychange' (web)
VisibilityChange(hidden) ==
    /\ platform = "web"
    /\ IF hidden THEN handleFocusLoss("window hidden")
       ELSE UNCHANGED <<studentStatus, intervention, isTimerRunning, focusViolation,
                        intervalRef, isTimerRunningRef, posts, reportsSinceStart>>
    /\ UNCHANGED <<platform, focusSeconds, isLoading, appStateRef, focusSecondsRef, fetches>>
    /\ UNCHANGED <<serverVars, normalizerVars>>

\* window 'blur' (web)
WindowBlur ==
    /\ platform = "web"
    /\ handleFocusLoss("window blurred")
    /\ UNCHANGED <<platform, focusSeconds, isLoading, appStateRef, focusSecondsRef, fetches>>
    /\ UNCHANGED <<serverVars, normalizerVars>>

\* AppState 'change' (native)
AppStateChange(nextState) ==
    /\ platform = "native"
    /\ appStateRef' = nextState
    /\ IF appStateRef = "active" /\ nextState = "background"
       THEN handleFocusLoss("app backgrounded")
       ELSE UNCHANGED <<studentStatus, intervention, isTimerRunning, focusViolation,
                        intervalRef, isTimerRunningRef, posts, reportsSinceStart>>
    /\ UNCHANGED <<platform, focusSeconds, isLoading, focusSecondsRef, fetches>>
    /\ UNCHANGED <<serverVars, normalizerVars>>

\* The interval's callback: setFocusSeconds(prev => prev + 1), and the ref.
Tick ==
    /\ intervalRef
    /\ focusSeconds < MaxSeconds
    /\ focusSeconds' = focusSeconds + 1
    /\ focusSecondsRef' = focusSeconds + 1
    /\ UNCHANGED <<platform, studentStatus, intervention, isTimerRunning, isLoading,
                   focusViolation, intervalRef, appStateRef, isTimerRunningRef,
                   posts, fetches, reportsSinceStart>>
    /\ UNCHANGED <<serverVars, normalizerVars>>

\* The timer's buttons are rendered while studentStatus is 'normal'.
TimerShown == studentStatus = "normal"

startTimerKeepViolation ==
    /\ TimerShown /\ ~isTimerRunning /\ ~isLoading
    /\ isTimerRunning' = TRUE
    /\ isTimerRunningRef' = TRUE
    /\ intervalRef' = TRUE
    /\ reportsSinceStart' = 0
    /\ UNCHANGED <<platform, studentStatus, intervention, focusSeconds, isLoading,
                   focusViolation, appStateRef, focusSecondsRef, posts, fetches>>
    /\ UNCHANGED <<serverVars, normalizerVars>>

\* Start: disabled={isTimerRunning || isLoading}
startTimer ==
    /\ TimerShown /\ ~isTimerRunning /\ ~isLoading
    /\ focusViolation' = FALSE
    /\ isTimerRunning' = TRUE
    /\ isTimerRunningRef' = TRUE
    /\ intervalRef' = TRUE
    /\ reportsSinceStart' = 0
    /\ UNCHANGED <<platform, studentStatus, intervention, focusSeconds, isLoading,
                   appStateRef, focusSecondsRef, posts, fetches>>
    /\ UNCHANGED <<serverVars, normalizerVars>>

\* Stop: disabled={!isTimerRunning || isLoading}
stopTimer ==
    /\ TimerShown /\ isTimerRunning /\ ~isLoading
    /\ isTimerRunning' = FALSE
    /\ isTimerRunningRef' = FALSE
    /\ intervalRef' = FALSE
    /\ UNCHANGED <<platform, studentStatus, intervention, focusSeconds, isLoading,
                   focusViolation, appStateRef, focusSecondsRef, posts, fetches,
                   reportsSinceStart>>
    /\ UNCHANGED <<serverVars, normalizerVars>>

\* Reset: disabled={isLoading}
resetTimer ==
    /\ TimerShown /\ ~isLoading
    /\ isTimerRunning' = FALSE
    /\ isTimerRunningRef' = FALSE
    /\ intervalRef' = FALSE
    /\ focusSeconds' = 0
    /\ focusSecondsRef' = 0
    /\ focusViolation' = FALSE
    /\ UNCHANGED <<platform, studentStatus, intervention, isLoading, appStateRef,
                   posts, fetches, reportsSinceStart>>
    /\ UNCHANGED <<serverVars, normalizerVars>>

\* The awaited POST /report-cheat ends: on success fetchStudentStatus is
\* called, on failure the error is logged.
ReportSettled(i, ok) ==
    /\ i \in 1..Len(posts)
    /\ posts' = SubSeq(posts, 1, i - 1) \o SubSeq(posts, i + 1, Len(posts))
    /\ IF ok THEN FetchIssued ELSE UNCHANGED <<isLoading, fetches>>
    /\ UNCHANGED <<platform, studentStatus, intervention, isTimerRunning, focusSeconds,
                   focusViolation, intervalRef, appStateRef, isTimerRunningRef,
                   focusSecondsRef, reportsSinceStart>>
    /\ UNCHANGED <<serverVars, normalizerVars>>

\* Refresh Status: rendered while studentStatus is 'needs_intervention',
\* disabled={isLoading}
RefreshStatus ==
    /\ studentStatus = "needs_intervention" /\ ~isLoading
    /\ FetchIssued
    /\ UNCHANGED <<platform, studentStatus, intervention, isTimerRunning, focusSeconds,
                   focusViolation, intervalRef, appStateRef, isTimerRunningRef,
                   focusSecondsRef, posts, reportsSinceStart>>
    /\ UNCHANGED <<serverVars, normalizerVars>>

FetchSettledUnlessViolated(ok, data) ==
    /\ fetches > 0
    /\ fetches' = fetches - 1
    /\ isLoading' = FALSE
    /\ IF ok /\ ~focusViolation
       THEN /\ studentStatus' = data.status
            /\ intervention' = data.intervention
       ELSE UNCHANGED <<studentStatus, intervention>>
    /\ UNCHANGED <<platform, isTimerRunning, focusSeconds, focusViolation, intervalRef,
                   appStateRef, isTimerRunningRef, focusSecondsRef, posts,
                   reportsSinceStart>>
    /\ UNCHANGED <<serverVars, normalizerVars>>

\* The awaited GET ends: the state is set from the answer, or the error is
\* shown; finally setIsLoading(false).
FetchSettled(ok, data) ==
    /\ fetches > 0
    /\ fetches' = fetches - 1
    /\ isLoading' = FALSE
    /\ IF ok
       THEN /\ studentStatus' = data.status
            /\ intervention' = data.intervention
       ELSE UNCHANGED <<studentStatus, intervention>>
    /\ UNCHANGED <<platform, isTimerRunning, focusSeconds, focusViolation, intervalRef,
                   appStateRef, isTimerRunningRef, focusSecondsRef, posts,
                   reportsSinceStart>>
    /\ UNCHANGED <<serverVars, normalizerVars>>

ClientNext ==
    \/ \E hidden \in BOOLEAN : VisibilityChange(hidden)
    \/ WindowBlur
    \/ \E nextState \in AppStates : AppStateChange(nextState)
    \/ Tick
    \/ startTimer
    \/ stopTimer
    \/ resetTimer
    \/ \E i \in 1..MaxCalls, ok \in BOOLEAN : ReportSettled(i, ok)
    \/ RefreshStatus
    \/ \E ok \in BOOLEAN, data \in StatusResponses : FetchSettled(ok, data)

ClientSpec == ClientInit /\ [][ClientNext]_vars

\* ---------------------------------------------------------------- normalizer

\* A payload arrives and nothing has been computed from it.
NormalizerInit ==
    /\ ServerInit
    /\ ClientMounted("web")
    /\ payload \in Payloads
    /\ normalized = None

\* const focusMinutes = parseFocusMinutes(req.body)
Normalize ==
    /\ normalized = None
    /\ normalized' = Some(parseFocusMinutes(payload))
    /\ UNCHANGED <<payload, serverVars, clientVars>>

NormalizerNext == Normalize

NormalizerSpec == NormalizerInit /\ [][NormalizerNext]_vars


\* -------------------------------------------------------------------- claims

\* C1: after any sequence and interleaving of check-ins, violation reports,
\* assignments and completions, every student's persisted state is one of
\* normal, needs_intervention, remedial.
C1_StateInStates == \A s \in StudentIds : students[s] \in States

\* All the requests of a run are handled and the two students are in the two
\* states other than the initial one.
C1_Witness ==
    /\ issued = MaxRequests
    /\ \A r \in Slots : reqs[r].pc = "idle"
    /\ students["s1"] = "needs_intervention"
    /\ students["s2"] = "remedial"

\* C2: when a check-in's student update succeeds, the state becomes normal if
\* quizScore > 7 and focusMinutes > 60 (both strict) and needs_intervention
\* otherwise, and the mentor notification is called exactly when the guard
\* fails.
C2_CheckinGuard ==
    [][\A r \in Slots :
          (/\ reqs[r].kind = "dailyCheckin"
           /\ reqs[r].pc = "updateStudent"
           /\ reqs'[r] # reqs[r]
           /\ sent'.res.code # 500)
          => LET pass == reqs[r].quizScore > 7 /\ reqs[r].focusMinutes > 60 * 60
             IN IF pass
                THEN /\ students'[reqs[r].studentId] = "normal"
                     /\ sent'.kind = "dailyCheckin"
                     /\ sent'.notify = "none"
                     /\ reqs'[r].notify = "none"
                ELSE /\ students'[reqs[r].studentId] = "needs_intervention"
                     /\ reqs'[r].notify = "pending"]_vars

\* A check-in with score 8 and exactly 60 minutes has set needs_intervention
\* and called the mentor notification.
C2_Witness ==
    \E r \in Slots :
        /\ reqs[r].kind = "dailyCheckin"
        /\ reqs[r].quizScore = 8
        /\ reqs[r].focusMinutes = 60 * 60
        /\ reqs[r].notify = "pending"
        /\ students[reqs[r].studentId] = "needs_intervention"

NonEmpty(o) == IsSome(o) /\ Val(o) # ""

\* C3: when the notification transport raises in a failing check-in or in a
\* violation report, the response is a success with its status field and a
\* non-empty warning, and the log row and the state update are persisted.
C3_RaisedHasWarning ==
    (sent.kind \in {"dailyCheckin", "reportCheat"} /\ sent.notify = "raised")
        => /\ sent.res.code = 200
           /\ sent.res.status # ""
           /\ NonEmpty(sent.res.warning)
           /\ sent.logged = 1
           /\ sent.updated

\* C4: when the notification transport returns a skipped result in a failing
\* check-in or in a violation report, the response carries a non-empty
\* warning, whether or not the result has a message.
C4_SkippedHasWarning ==
    (sent.kind \in {"dailyCheckin", "reportCheat"} /\ sent.notify = "skipped")
        => NonEmpty(sent.res.warning)

\* C5: a check-in writes exactly one daily log row, and writes it before the
\* student update and before the notification call; a check-in that writes no
\* row (rejected, or the insert failed) touches neither, and the steps after
\* the insert, failing or not, leave the row in place and add no other.
C5_LogRowFirst ==
    [][/\ \A r \in Slots :
            (reqs[r].pc = "idle" /\ reqs'[r].kind = "dailyCheckin")
            => /\ Len(dailyLogs') = Len(dailyLogs) + 1
               /\ SubSeq(dailyLogs', 1, Len(dailyLogs)) = dailyLogs
               /\ dailyLogs'[Len(dailyLogs')].student_id = reqs'[r].studentId
               /\ students' = students
               /\ reqs'[r].notify = "none"
               /\ ~reqs'[r].updated
       /\ \A r \in Slots :
            (reqs[r].kind = "dailyCheckin" /\ reqs'[r] # reqs[r])
            => dailyLogs' = dailyLogs
       /\ (sent'.kind = "dailyCheckin" /\ sent'.logged = 0 /\ sent' # sent)
            => /\ students' = students
               /\ dailyLogs' = dailyLogs
               /\ sent'.notify = "none"
               /\ ~sent'.updated]_vars

\* A check-in has failed at its student update, after its row was written:
\* the row is there.
C5_Witness ==
    /\ sent.kind = "dailyCheckin"
    /\ sent.res.code = 500
    /\ sent.logged = 1
    /\ Len(dailyLogs) = 1
    /\ dailyLogs[1].status = "needs_intervention"

\* A request of this handler arrives on slot r in this step: after the step
\* it is in flight there, or it has been answered.
Arrives(r, kind) ==
    /\ reqs[r].pc = "idle"
    /\ issued' = issued + 1
    /\ (reqs'[r].kind = kind \/ sent'.kind = kind)

ValidComplete(body) ==
    /\ NonEmpty(body.student_id)
    /\ IsSome(body.intervention_id)
    /\ Val(body.intervention_id) # 0

\* The interventions with this id that belong to this student.
Matching(body) ==
    {i \in 1..Len(interventions) :
        /\ interventions[i].id = Val(body.intervention_id)
        /\ interventions[i].student_id = Val(body.student_id)}

\* C8: a completion whose intervention_id matches no intervention of that
\* student is answered 404, and leaves the students and the interventions as
\* they are.
C8_NoMatchNotFound ==
    [][\A r \in Slots, body \in CompleteBodies :
          (/\ Arrives(r, "completeIntervention")
           /\ CompleteIntervention(r, body, TRUE)
           /\ ValidComplete(body)
           /\ Matching(body) = {})
          => /\ sent'.res.code = 404
             /\ students' = students
             /\ interventions' = interventions]_vars

\* A completion was answered 404 while another student's intervention with
\* that id, or this student's intervention with another id, is pending.
C8_Witness ==
    /\ sent.kind = "completeIntervention"
    /\ sent.res.code = 404
    /\ Len(interventions) = 2
    /\ \A i \in 1..2 : interventions[i].status = "pending"
    /\ interventions[1].student_id = interventions[2].student_id

\* C9: a completion of an intervention that is not pending is answered 404 and
\* leaves the student's state and the intervention as they are.
C9_NotPendingNotFound ==
    [][\A r \in Slots, body \in CompleteBodies :
          (/\ Arrives(r, "completeIntervention")
           /\ CompleteIntervention(r, body, TRUE)
           /\ ValidComplete(body)
           /\ \A i \in Matching(body) : interventions[i].status # "pending")
          => /\ sent'.res.code = 404
             /\ students' = students
             /\ interventions' = interventions]_vars

\* C10: an assignment answers with the id of the intervention it created for
\* the student; a completion with that student and id marks the intervention
\* completed with a completion time that is not null, and its student update
\* sets the student to normal and answers success.
C10_AssignThenComplete ==
    [][/\ \A r \in Slots :
            (/\ reqs[r].kind = "assignIntervention"
             /\ sent'.kind = "assignIntervention"
             /\ sent'.res.code = 200
             /\ reqs'[r] # reqs[r])
            => /\ sent'.res.success
               /\ sent'.res.intervention_id \in 1..Len(interventions)
               /\ interventions[sent'.res.intervention_id].id
                      = sent'.res.intervention_id
               /\ interventions[sent'.res.intervention_id].student_id
                      = reqs[r].studentId
       /\ \A r \in Slots, body \in CompleteBodies :
            (/\ Arrives(r, "completeIntervention")
             /\ CompleteIntervention(r, body, TRUE)
             /\ ValidComplete(body)
             /\ Matching(body) # {})
            => /\ reqs'[r].pc = "updateStudent"
               /\ \A i \in Matching(body) :
                      /\ interventions'[i].status = "completed"
                      /\ interventions'[i].completed_at # 0
       /\ \A r \in Slots :
            (/\ reqs[r].kind = "completeIntervention"
             /\ reqs'[r] # reqs[r]
             /\ sent'.res.code # 500)
            => /\ students'[reqs[r].studentId] = "normal"
               /\ sent'.res.code = 200
               /\ sent'.res.success
               /\ interventions' = interventions]_vars

\* An intervention was assigned and then completed: the completion has just
\* answered success, the intervention is completed with its time set and the
\* student is normal.
C10_Witness ==
    /\ sent.kind = "completeIntervention"
    /\ sent.res.success
    /\ Len(interventions) = 1
    /\ interventions[1].status = "completed"
    /\ interventions[1].completed_at # 0
    /\ students[interventions[1].student_id] = "normal"

\* C6: between one start of the focus timer and the next, at most one
\* violation report is sent, whatever focus-loss signals arrive.
C6_OneReportPerStart == reportsSinceStart <= 1

\* On the native platform a violation was reported, and the app has since
\* gone to the background and come back without a new start.
C6_Witness ==
    /\ platform = "native"
    /\ reportsSinceStart = 1
    /\ focusViolation
    /\ ~isTimerRunningRef
    /\ appStateRef = "active"

FocusLossSignal ==
    \/ \E hidden \in BOOLEAN : VisibilityChange(hidden)
    \/ WindowBlur
    \/ \E nextState \in AppStates : AppStateChange(nextState)

\* C7: a focus-loss signal received while the monitor is not running sends no
\* violation report and leaves the running flag, the violated flag, the
\* elapsed seconds, the local student state and the cached intervention as
\* they are.
C7_NotRunningNoFire ==
    [][(FocusLossSignal /\ ~isTimerRunningRef)
          => UNCHANGED <<posts, reportsSinceStart, isTimerRunning, isTimerRunningRef,
                         focusViolation, focusSeconds, focusSecondsRef,
                         studentStatus, intervention>>]_vars

\* The timer was started and stopped, and the app then went to the
\* background: nothing was reported.
C7_Witness ==
    /\ platform = "native"
    /\ appStateRef = "background"
    /\ ~isTimerRunningRef
    /\ ~focusViolation
    /\ focusSeconds > 0
    /\ reportsSinceStart = 0
    /\ posts = <<>>

\* The student's interventions that are pending.
Pending(s) ==
    {i \in 1..Len(interventions) :
        interventions[i].student_id = s /\ interventions[i].status = "pending"}

\* C11: at every moment, after any sequence of assignments and completions,
\* each student has at most one pending intervention.
C11_OnePendingPerStudent == \A s \in StudentIds : Cardinality(Pending(s)) <= 1

\* The request was answered 400 and nothing else happened: no table changed
\* and no handler is left running or calling the transport.
RejectedWithoutEffect ==
    /\ sent'.res.code = 400
    /\ sent'.notify = "none"
    /\ sent'.emit = "none"
    /\ UNCHANGED <<students, dailyLogs, interventions, reqs>>

\* C12: a request that lacks a field its handler requires (check-in:
\* student_id, quiz_score; violation report: student_id; assignment:
\* student_id, task_description; completion: student_id, intervention_id) is
\* answered 400 and has no side effect: no daily log row, no student state
\* change, no intervention created or changed, no mentor notification.
C12_RejectedNoEffect ==
    [][\A r \in Slots, ok \in BOOLEAN :
          /\ \A body \in CheckinBodies :
                (/\ Arrives(r, "dailyCheckin")
                 /\ (~NonEmpty(body.student_id) \/ ~IsSome(body.quiz_score))
                 /\ DailyCheckin(r, body, ok))
                => RejectedWithoutEffect
          /\ \A body \in ReportBodies :
                (/\ Arrives(r, "reportCheat")
                 /\ ~NonEmpty(body.student_id)
                 /\ ReportCheat(r, body, ok))
                => RejectedWithoutEffect
          /\ \A body \in AssignBodies :
                (/\ Arrives(r, "assignIntervention")
                 /\ (~NonEmpty(body.student_id) \/ ~NonEmpty(body.task_description))
                 /\ AssignIntervention(r, body, ok))
                => RejectedWithoutEffect
          /\ \A body \in CompleteBodies :
                (/\ Arrives(r, "completeIntervention")
                 /\ (~NonEmpty(body.student_id) \/ ~IsSome(body.intervention_id))
                 /\ CompleteIntervention(r, body, ok))
                => RejectedWithoutEffect]_vars

\* A completion without a required field was answered 400 while the student
\* is remedial with a pending intervention and a daily log row: all are as
\* they were.
C12_Witness ==
    /\ sent.kind = "completeIntervention"
    /\ sent.res.code = 400
    /\ students["s1"] = "remedial"
    /\ Len(interventions) = 1
    /\ interventions[1].status = "pending"
    /\ Len(dailyLogs) = 1

\* The request of slot r was answered 500 and has ended: no row was written,
\* no student changed state and the transport was not called.
FailedHard(r) ==
    /\ sent'.res.code = 500
    /\ sent'.notify = "none"
    /\ ~sent'.updated
    /\ reqs'[r].pc = "idle"
    /\ UNCHANGED <<students, dailyLogs, reqs>>

\* C13: when the insert of the daily log row fails in a check-in or in a
\* violation report, the caller gets a 500, the student's state is not
\* changed by the request and the mentor notification is not invoked.
C13_InsertFailureHard ==
    [][\A r \in Slots :
          /\ \A body \in CheckinBodies :
                (/\ Arrives(r, "dailyCheckin")
                 /\ DailyCheckin(r, body, FALSE)
                 /\ NonEmpty(body.student_id)
                 /\ IsSome(body.quiz_score))
                => FailedHard(r)
          /\ \A body \in ReportBodies :
                (/\ Arrives(r, "reportCheat")
                 /\ ReportCheat(r, body, FALSE)
                 /\ NonEmpty(body.student_id))
                => FailedHard(r)]_vars

\* A violation report of a remedial student failed at its insert: the log is
\* empty and the student is still remedial.
C13_Witness ==
    /\ sent.kind = "reportCheat"
    /\ sent.res.code = 500
    /\ sent.logged = 0
    /\ dailyLogs = <<>>
    /\ students["s1"] = "remedial"

\* C14: a violation report with a student_id writes one daily log row whose
\* outcome tag is the reason supplied, or "cheated" when none is; its student
\* update, from whatever state the student is in, sets needs_intervention
\* and calls the mentor notification; the report writes no other row.
C14_ReportEscalates ==
    [][\A r \in Slots :
          /\ \A body \in ReportBodies :
                (/\ Arrives(r, "reportCheat")
                 /\ ReportCheat(r, body, TRUE)
                 /\ NonEmpty(body.student_id))
                => /\ Len(dailyLogs') = Len(dailyLogs) + 1
                   /\ SubSeq(dailyLogs', 1, Len(dailyLogs)) = dailyLogs
                   /\ dailyLogs'[Len(dailyLogs')].student_id = Val(body.student_id)
                   /\ dailyLogs'[Len(dailyLogs')].status =
                          (IF NonEmpty(body.reason) THEN Val(body.reason) ELSE "cheated")
                   /\ students' = students
          /\ ReportUpdateStudent(r, TRUE)
                => /\ students[reqs[r].studentId] \in States
                   /\ students'[reqs[r].studentId] = "needs_intervention"
                   /\ reqs[r].notify = "none"
                   /\ reqs'[r].notify = "pending"
          /\ (reqs[r].kind = "reportCheat" /\ reqs'[r] # reqs[r])
                => dailyLogs' = dailyLogs]_vars

\* A report without a reason came for a student with a pending intervention:
\* its row is tagged "cheated", the student is in needs_intervention and the
\* mentor notification has been called.
C14_Witness ==
    \E r \in Slots :
        /\ reqs[r].kind = "reportCheat"
        /\ reqs[r].notify = "pending"
        /\ students[reqs[r].studentId] = "needs_intervention"
        /\ Pending(reqs[r].studentId) # {}
        /\ Len(dailyLogs) = 1
        /\ dailyLogs[1].status = "cheated"

\* C15: in a failing check-in and in a violation report, the mentor
\* notification is called in the step whose student update has set
\* needs_intervention, never earlier; and while the call is pending and when
\* it ends (sent, skipped or raised) the request changes no student's state
\* and answers a success.
C15_UpdateBeforeNotify ==
    [][\A r \in Slots :
          /\ (/\ reqs[r].kind \in {"dailyCheckin", "reportCheat"}
               /\ reqs[r].notify = "none"
               /\ reqs'[r].notify # "none")
                => /\ reqs'[r].notify = "pending"
                   /\ reqs'[r].updated
                   /\ students'[reqs[r].studentId] = "needs_intervention"
          /\ (/\ reqs[r].kind \in {"dailyCheckin", "reportCheat"}
               /\ reqs[r].notify = "none"
               /\ reqs'[r].pc = "idle")
                => sent'.notify = "none"
          /\ \A n \in NotifyOutcomes :
                (CheckinNotifyResult(r, n) \/ ReportNotifyResult(r, n))
                => /\ students' = students
                   /\ sent'.res.code = 200
                   /\ sent'.updated
          /\ (reqs[r].notify = "pending" /\ reqs'[r] # reqs[r])
                => students' = students]_vars

\* The transport raised in a failing check-in: the request has answered and
\* the student is in needs_intervention.
C15_Witness ==
    /\ sent.kind = "dailyCheckin"
    /\ sent.notify = "raised"
    /\ sent.updated
    /\ sent.res.code = 200
    /\ students["s1"] = "needs_intervention"

\* The state a check-in or a violation report writes, by its signals.
Written(q) ==
    IF q.kind = "dailyCheckin" /\ q.quizScore > 7 /\ q.focusMinutes > 60 * 60
    THEN "normal"
    ELSE "needs_intervention"

\* C16: a check-in or a violation report whose student update succeeded has,
\* when it answers, emitted a status to the status channel, whether the
\* transport was not called, sent, skipped or raised; the status emitted is
\* the state the request wrote.
C16_EmitsWrittenState ==
    [][\A r \in Slots :
          reqs[r].kind \in {"dailyCheckin", "reportCheat"}
          => /\ (~reqs[r].updated /\ (reqs'[r].updated \/ sent'.updated)
                     /\ reqs'[r] # reqs[r])
                   => students'[reqs[r].studentId] = Written(reqs[r])
             /\ (reqs'[r].pc = "idle" /\ sent'.updated)
                   => /\ sent'.emit = Written(reqs[r])
                      /\ sent'.notify \in {"none", "sent", "skipped", "raised"}
             /\ (reqs'[r].pc = "idle" /\ ~sent'.updated)
                   => sent'.emit = "none"]_vars

\* A violation report whose notification was skipped has answered: it has
\* emitted needs_intervention.
C16_Witness ==
    /\ sent.kind = "reportCheat"
    /\ sent.notify = "skipped"
    /\ sent.updated
    /\ sent.emit = "needs_intervention"

\* C17: the daily log is append-only. Every step leaves the rows there are
\* in place and as they are; a check-in or a violation report that passes
\* validation and whose insert succeeds appends exactly one row, in its first
\* step, and none later; no request appends a row in a later step of its
\* handler, and an arriving assignment or completion appends none.
C17_LogAppendOnly ==
    [][/\ Len(dailyLogs') >= Len(dailyLogs)
       /\ SubSeq(dailyLogs', 1, Len(dailyLogs)) = dailyLogs
       /\ \A r \in Slots :
            /\ \A body \in CheckinBodies :
                  (/\ Arrives(r, "dailyCheckin")
                   /\ DailyCheckin(r, body, TRUE)
                   /\ NonEmpty(body.student_id)
                   /\ IsSome(body.quiz_score))
                  => Len(dailyLogs') = Len(dailyLogs) + 1
            /\ \A body \in ReportBodies :
                  (/\ Arrives(r, "reportCheat")
                   /\ ReportCheat(r, body, TRUE)
                   /\ NonEmpty(body.student_id))
                  => Len(dailyLogs') = Len(dailyLogs) + 1
            /\ (reqs[r].pc # "idle" /\ reqs'[r] # reqs[r])
                  => dailyLogs' = dailyLogs
            /\ (Arrives(r, "assignIntervention") \/ Arrives(r, "completeIntervention"))
                  => dailyLogs' = dailyLogs]_vars

\* A check-in and then a violation report have each written their row, in
\* that order, and an intervention has been assigned since.
C17_Witness ==
    /\ Len(dailyLogs) = 2
    /\ dailyLogs[1].status = "needs_intervention"
    /\ dailyLogs[2].status = "window hidden"
    /\ Len(interventions) = 1

\* C18: the signal normalizer returns a non-negative focusMinutes for every
\* payload, a negative numeric focus_minutes, a negative or signed "MM:SS"
\* part and a negative bare-number string included.
C18_NonNegative == IsSome(normalized) => Val(normalized) >= 0

\* C19: an assignment with a student_id and a non-empty task description
\* creates one pending intervention for the student, and its student update
\* sets the student to remedial from whatever state the student is in,
\* creating no other intervention.
C19_AssignForcesRemedial ==
    [][\A r \in Slots :
          /\ \A body \in AssignBodies :
                (/\ Arrives(r, "assignIntervention")
                 /\ AssignIntervention(r, body, TRUE)
                 /\ NonEmpty(body.student_id)
                 /\ NonEmpty(body.task_description))
                => /\ Len(interventions') = Len(interventions) + 1
                   /\ SubSeq(interventions', 1, Len(interventions)) = interventions
                   /\ interventions'[Len(interventions')].student_id
                          = Val(body.student_id)
                   /\ interventions'[Len(interventions')].task_description
                          = Val(body.task_description)
                   /\ interventions'[Len(interventions')].status = "pending"
          /\ AssignUpdateStudent(r, TRUE)
                => /\ students[reqs[r].studentId] \in States
                   /\ students'[reqs[r].studentId] = "remedial"
                   /\ interventions' = interventions
                   /\ sent'.res.success]_vars

\* A second intervention was assigned to a student who was remedial with a
\* pending one: the assignment answered its id and the student is remedial.
C19_Witness ==
    /\ sent.kind = "assignIntervention"
    /\ sent.res.success
    /\ sent.res.intervention_id = 2
    /\ \A r \in Slots : reqs[r].pc = "idle"
    /\ \E s \in StudentIds : Pending(s) = {1, 2} /\ students[s] = "remedial"

\* C20: a completion that matches an intervention of the student leaves
\* every other intervention as it is, pending ones included, and its student
\* update sets the student to normal from whatever state the student is in.
C20_CompleteForcesNormal ==
    [][\A r \in Slots :
          /\ \A body \in CompleteBodies :
                (/\ Arrives(r, "completeIntervention")
                 /\ CompleteIntervention(r, body, TRUE)
                 /\ ValidComplete(body)
                 /\ Matching(body) # {})
                => /\ Len(interventions') = Len(interventions)
                   /\ \A i \in (1..Len(interventions)) \ Matching(body) :
                          interventions'[i] = interventions[i]
          /\ CompleteUpdateStudent(r, TRUE)
                => /\ students[reqs[r].studentId] \in States
                   /\ students'[reqs[r].studentId] = "normal"
                   /\ interventions' = interventions
                   /\ sent'.res.success]_vars

\* One of a student's two interventions was completed: the completion has
\* answered success, the student is normal and the other one is pending.
C20_Witness ==
    /\ sent.kind = "completeIntervention"
    /\ sent.res.success
    /\ Len(interventions) = 2
    /\ \E s \in StudentIds :
          /\ students[s] = "normal"
          /\ Cardinality(Pending(s)) = 1
          /\ \A i \in 1..2 : interventions[i].student_id = s

\* C21: on the native platform, whenever the focus session is running and
\* the app moves to the background, a violation fires, whatever app state
\* the change comes from (active, or inactive after active).
C21_BackgroundFires ==
    [][(/\ platform = "native"
        /\ isTimerRunningRef
        /\ appStateRef # "background"
        /\ AppStateChange("background"))
          => /\ focusViolation'
             /\ ~isTimerRunningRef'
             /\ Len(posts') = Len(posts) + 1]_vars

\* A violation fires in this step: a focus-loss signal arrives while the
\* monitor is running, and it is one the platform's listener passes on.
ViolationFires ==
    /\ isTimerRunningRef
    /\ \/ VisibilityChange(TRUE)
       \/ WindowBlur
       \/ (appStateRef = "active" /\ AppStateChange("background"))

\* The elapsed time a report carries, in seconds, as the server reads it.
ReportedSeconds(post) ==
    parseFocusMinutes([focus_minutes |-> None, focus_duration |-> Some(post.focus_duration)])

\* C22: when a violation fires, in that step the counter stops, violated
\* becomes true, the local student state becomes needs_intervention, the
\* cached intervention becomes null and one violation report carrying the
\* elapsed time is issued; when a report fails, none of these local values
\* changes.
C22_ViolationEffects ==
    [][/\ ViolationFires
          => /\ ~isTimerRunning' /\ ~isTimerRunningRef' /\ ~intervalRef'
             /\ focusViolation'
             /\ studentStatus' = "needs_intervention"
             /\ intervention' = None
             /\ focusSeconds' = focusSeconds
             /\ Len(posts') = Len(posts) + 1
             /\ SubSeq(posts', 1, Len(posts)) = posts
             /\ posts'[Len(posts')].student_id = STUDENT_ID
             /\ ReportedSeconds(posts'[Len(posts')]) = focusSeconds
       /\ \A i \in 1..MaxCalls :
            ReportSettled(i, FALSE)
            => UNCHANGED <<isTimerRunning, isTimerRunningRef, focusViolation,
                           studentStatus, intervention, focusSeconds, fetches,
                           isLoading>>]_vars

\* A violation fired two seconds into a session and its report failed: the
\* session is stopped and violated, the local state is needs_intervention
\* with no cached intervention, and no fetch followed.
C22_Witness ==
    /\ focusViolation
    /\ ~isTimerRunning
    /\ studentStatus = "needs_intervention"
    /\ intervention = None
    /\ focusSeconds = 2
    /\ reportsSinceStart = 1
    /\ posts = <<>>
    /\ fetches = 0

\* C23: nothing cancels or orders the status fetches in flight: a violation
\* leaves them in flight, and a fetch that resolves sets the local student
\* state and the cached intervention from its answer, also when the local
\* state is the needs_intervention a violation has set since.
C23_StaleFetchOverwrites ==
    [][/\ ViolationFires => fetches' = fetches
       /\ \A data \in StatusResponses :
            FetchSettled(TRUE, data)
            => /\ studentStatus' = data.status
               /\ intervention' = data.intervention
               /\ focusViolation' = focusViolation]_vars

\* The violation's report and an older one are still in flight, so no fetch
\* was issued by a report since the violation, and a refresh can add a fetch
\* only to one in flight since before it; one fetch has resolved and one is
\* in flight: the local state is normal again while the session is violated.
C23_Witness ==
    /\ focusViolation
    /\ studentStatus = "normal"
    /\ reportsSinceStart = 1
    /\ Len(posts) = 2
    /\ fetches = 1
    /\ ~isLoading

\* Slot c holds a check-in that passes.
Passing(c) ==
    /\ reqs[c].kind = "dailyCheckin"
    /\ reqs[c].quizScore > 7 /\ reqs[c].focusMinutes > 60 * 60

\* Slot c holds a passing check-in and slot v a violation report of the same
\* student: the two are in flight together, each with its row written.
Racing(c, v) ==
    /\ Passing(c)
    /\ reqs[v].kind = "reportCheat"
    /\ reqs[v].studentId = reqs[c].studentId

\* C24: a passing check-in's student update sets normal and a violation
\* report's sets needs_intervention, whatever the other has done, so the
\* state is the target of the update that ran last; while the two are in
\* flight together for the same student both daily log rows are written, no
\* other step of the two changes the state, and when no other request has
\* been handled the state is normal or needs_intervention.
C24_LastUpdateWins ==
    [][/\ \A c \in Slots :
            (Passing(c) /\ reqs'[c] # reqs[c] /\ sent'.res.code # 500)
            => students'[reqs[c].studentId] = "normal"
       /\ \A v \in Slots :
            (/\ reqs[v].kind = "reportCheat"
             /\ reqs[v].pc = "updateStudent"
             /\ reqs'[v] # reqs[v]
             /\ reqs'[v].pc # "idle")
            => students'[reqs[v].studentId] = "needs_intervention"
       /\ \A c, v \in Slots :
            Racing(c, v)
            => /\ \E i, j \in 1..Len(dailyLogs) :
                      /\ i # j
                      /\ dailyLogs[i].student_id = reqs[c].studentId
                      /\ dailyLogs[i].status = "on_track"
                      /\ dailyLogs[j].student_id = reqs[v].studentId
                      /\ dailyLogs[j].status = reqs[v].reason
               /\ (\/ (reqs'[c] # reqs[c] /\ sent'.res.code = 500)
                   \/ (reqs'[v] # reqs[v] /\ reqs[v].pc # "updateStudent")
                   \/ (reqs'[v] # reqs[v] /\ reqs'[v].pc = "idle"))
                      => students' = students
               /\ issued = 2
                      => students'[reqs[c].studentId]
                             \in {"normal", "needs_intervention"}]_vars

\* The report's update ran first and the check-in's last: the check-in has
\* answered, the report is waiting for the transport, both rows are in the
\* log and the student is normal.
C24_Witness ==
    /\ sent.kind = "dailyCheckin"
    /\ sent.updated
    /\ sent.emit = "normal"
    /\ \E v \in Slots :
          /\ reqs[v].kind = "reportCheat"
          /\ reqs[v].updated
          /\ reqs[v].notify = "pending"
          /\ students[reqs[v].studentId] = "normal"
    /\ Len(dailyLogs) = 2

\* The payload has a focus_minutes that is a finite number.
HasFiniteMinutes == 
    /\ IsSome(payload.focus_minutes)
    /\ Val(payload.focus_minutes).type = "number"
    /\ Val(payload.focus_minutes).finite

\* What a focus_duration string stands for, in sixtieths of a minute: an
\* "MM:SS" string is minutes + seconds / 60, a bare number is that number,
\* anything else, and no string at all, is 0.
DurationMeans(d) ==
    CASE d = Some(S_5_30)   -> 5 * 60 + 30
      [] d = Some(S_61_00)  -> 61 * 60
      [] d = Some(S_60_00)  -> 60 * 60
      [] d = Some(S_00_05)  -> 5
      [] d = Some(S_0_00)   -> 0
      [] d = Some(S_p2_15)  -> 2 * 60 + 15
      [] d = Some(S_m1_30)  -> 30 - 60
      [] d = Some(S_1_m30)  -> 60 - 30
      [] d = Some(S_5_colon) -> 5 * 60
      [] d = Some(S_colon)  -> 0
      [] d = Some(S_90)     -> 90 * 60
      [] d = Some(S_m5)     -> 0 - 5 * 60
      [] d = Some(S_empty)  -> 0
      [] d = Some(S_bad)    -> 0
      [] d = Some(S_a_10)   -> 0
      [] d = Some(S_1_2_3)  -> 0
      [] d = None           -> 0

\* C25: the signal normalizer returns a value for every payload, by its
\* rules in order: a finite numeric focus_minutes as it is, whatever
\* focus_duration holds; otherwise minutes + seconds / 60 for an "MM:SS"
\* string ("5:30" gives 5.5); otherwise the number a bare-number string
\* stands for; otherwise 0 ("bad" gives 0, and so does an absent field).
C25_RulesInOrder ==
    IsSome(normalized)
    => Val(normalized) =
          IF HasFiniteMinutes
          THEN Val(payload.focus_minutes).val * 60
          ELSE DurationMeans(payload.focus_duration)

\* A payload with both focus_minutes 61 and focus_duration "5:30" was
\* normalized to 61 minutes.
C25_Witness ==
    /\ payload.focus_minutes = Some(Number(61))
    /\ payload.focus_duration = Some(S_5_30)
    /\ normalized = Some(61 * 60)

\* The focus session is both running and violated.
RunningAndViolated ==
    /\ isTimerRunning \/ isTimerRunningRef
    /\ focusViolation

====
